---- MODULE Spec2Model ----
(***************************************************************************)
(* A model of convert_csv_to_latlon.py (NSIDC-0790 tools): the conversion  *)
(* of a table of (grid-i, grid-j, concentration) triplets into three       *)
(* tables of latitudes, longitudes and concentrations.                     *)
(*                                                                         *)
(* Text is modelled as sequences of one-character strings.  A float32      *)
(* value that is a whole number is modelled by that integer; the products  *)
(* of the grid transform are modelled in fixed point (see Fx below).       *)
(***************************************************************************)
EXTENDS Integers, Sequences, FiniteSets, TLC

VARIABLES
    ifn,                 \* the path given to gen_latlonconc_from_csv
    hdr_cols,            \* input file: the column names of the data header line
    hdr_eol,             \* input file: the line terminator of the header line
    rows,                \* input file: the data rows (numbers as written)
    verbose,             \* the verbose argument
    pc,                  \* position in gen_latlonconc_from_csv
    err,                 \* the exception that ended the run ("" when none)
    startymd, endymd,    \* result of parse_0790_filename
    csv_header,          \* result of read_csv_header
    arr, arr_ndim,       \* the loaded array and its number of dimensions
    missing_locs_prior,  \* arr == -999
    missing_locs_post,   \* arr == 999
    ivals, jvals, cvals, \* the three strided views / final conc table
    xvals, yvals,        \* projected metres (float32)
    proj_outcome,        \* what the reprojection library returned
    lats, lons,          \* reprojected values, then the final tables
    ll_arr,              \* the reassembled array
    written,             \* the files written so far, in order
    gi, gj, gx, gy, gdone \* the grid transform applied to one index pair

vars == <<ifn, hdr_cols, hdr_eol, rows, verbose, pc, err, startymd, endymd,
          csv_header, arr, arr_ndim, missing_locs_prior, missing_locs_post,
          ivals, jvals, cvals, xvals, yvals, proj_outcome, lats, lons, ll_arr,
          written, gi, gj, gx, gy, gdone>>

pipeline_vars == <<ifn, hdr_cols, hdr_eol, rows, verbose, pc, err, startymd,
                   endymd, csv_header, arr, arr_ndim, missing_locs_prior,
                   missing_locs_post, ivals, jvals, cvals, xvals, yvals,
                   proj_outcome, lats, lons, ll_arr, written>>

grid_vars == <<gi, gj, gx, gy, gdone>>

----------------------------------------------------------------------------
(* Bounds of the model.                                                    *)

MaxRows == 2        \* data rows of an input table: 1..MaxRows
MaxCols == 6        \* columns of an input table: 1..MaxCols
MaxTokens == 5      \* '_'-separated tokens of a file name: 1..MaxTokens
MaxHdrCols == 3     \* column names of a header line: 1..MaxHdrCols

----------------------------------------------------------------------------
(* Text helpers.                                                           *)

Digits == <<"0", "1", "2", "3", "4", "5", "6", "7", "8", "9">>

IsDigit(c) == \E d \in 1..10 : Digits[d] = c

DigitVal(c) == (CHOOSE d \in 1..10 : Digits[d] = c) - 1

\* s[from:] with a 0-based index, as Python slices it
DropChars(s, from) == IF from >= Len(s) THEN <<>> ELSE SubSeq(s, from + 1, Len(s))

\* s[:upto]
TakeChars(s, upto) == IF upto >= Len(s) THEN s ELSE SubSeq(s, 1, upto)

\* s[-k:]
LastChars(s, k) == IF k >= Len(s) THEN s ELSE SubSeq(s, Len(s) - k + 1, Len(s))

\* index of the first occurrence of character c in s, or 0
RECURSIVE FindChar(_, _, _)
FindChar(s, c, from) ==
    IF from > Len(s) THEN 0
    ELSE IF s[from] = c THEN from
    ELSE FindChar(s, c, from + 1)

\* str.split(sep) for a one-character separator
RECURSIVE SplitOn(_, _)
SplitOn(s, sep) ==
    LET p == FindChar(s, sep, 1)
    IN  IF p = 0 THEN <<s>>
        ELSE <<TakeChars(s, p - 1)>> \o SplitOn(DropChars(s, p), sep)

\* sep.join(parts)
RECURSIVE JoinWith(_, _)
JoinWith(parts, sep) ==
    IF Len(parts) = 0 THEN <<>>
    ELSE IF Len(parts) = 1 THEN parts[1]
    ELSE parts[1] \o <<sep>> \o JoinWith(Tail(parts), sep)

Whitespace == {" ", "\t", "\n", "\r"}

\* str.rstrip()
RECURSIVE RStrip(_)
RStrip(s) ==
    IF Len(s) > 0 /\ s[Len(s)] \in Whitespace
    THEN RStrip(SubSeq(s, 1, Len(s) - 1))
    ELSE s

\* os.path.basename
RECURSIVE Basename(_)
Basename(p) ==
    LET k == FindChar(p, "/", 1)
    IN  IF k = 0 THEN p ELSE Basename(DropChars(p, k))

----------------------------------------------------------------------------
(* datetime.strptime(tok, '%Y%m%d') and .strftime('%Y%m%d').               *)
(* The format compiles to the regular expression                           *)
(*   (\d\d\d\d)(1[0-2]|0[1-9]|[1-9])(3[01]|[12]\d|0[1-9]|[1-9]| [1-9])     *)
(* which is matched at the start of the token; the alternatives are tried  *)
(* in order and the match must then cover the whole token.                 *)

NonZeroDigit(c) == IsDigit(c) /\ c # "0"

\* lengths of the month alternatives that match at the start of s, in order
MonthLens(s) ==
    IF Len(s) >= 2 /\ s[1] = "1" /\ s[2] \in {"0", "1", "2"} THEN <<2, 1>>
    ELSE IF Len(s) >= 2 /\ s[1] = "0" /\ NonZeroDigit(s[2]) THEN <<2>>
    ELSE IF Len(s) >= 1 /\ NonZeroDigit(s[1]) THEN <<1>>
    ELSE <<>>

\* length of the first day alternative that matches at the start of s, or 0
DayLen(s) ==
    IF Len(s) >= 2 /\ s[1] = "3" /\ s[2] \in {"0", "1"} THEN 2
    ELSE IF Len(s) >= 2 /\ s[1] \in {"1", "2"} /\ IsDigit(s[2]) THEN 2
    ELSE IF Len(s) >= 2 /\ s[1] = "0" /\ NonZeroDigit(s[2]) THEN 2
    ELSE IF Len(s) >= 1 /\ NonZeroDigit(s[1]) THEN 1
    ELSE IF Len(s) >= 2 /\ s[1] = " " /\ NonZeroDigit(s[2]) THEN 2
    ELSE 0

\* int() of a matched group of digits, a leading blank ignored
RECURSIVE IntOf(_)
IntOf(s) ==
    IF Len(s) = 0 THEN 0
    ELSE IF s[Len(s)] = " " THEN 0
    ELSE 10 * IntOf(SubSeq(s, 1, Len(s) - 1)) + DigitVal(s[Len(s)])

IsLeap(y) == (y % 4 = 0 /\ y % 100 # 0) \/ y % 400 = 0

DaysInMonth(y, m) ==
    IF m = 2 THEN (IF IsLeap(y) THEN 29 ELSE 28)
    ELSE IF m \in {4, 6, 9, 11} THEN 30
    ELSE 31

NoDate == [ok |-> FALSE, y |-> 0, m |-> 0, d |-> 0]

\* the parsed date, or ok = FALSE where strptime raises ValueError
Strptime(tok) ==
    IF Len(tok) < 4 \/ \E k \in 1..4 : ~IsDigit(tok[k]) THEN NoDate
    ELSE
      LET rest == DropChars(tok, 4)
          ml   == MonthLens(rest)
          good == {k \in 1..Len(ml) : DayLen(DropChars(rest, ml[k])) > 0}
      IN  IF good = {} THEN NoDate
          ELSE
            LET k    == CHOOSE a \in good : \A b \in good : a <= b
                mlen == ml[k]
                dlen == DayLen(DropChars(rest, mlen))
                y    == IntOf(TakeChars(tok, 4))
                m    == IntOf(TakeChars(rest, mlen))
                d    == IntOf(SubSeq(rest, mlen + 1, mlen + dlen))
            IN  IF 4 + mlen + dlen # Len(tok) THEN NoDate  \* unconverted data remains
                ELSE IF y < 1 \/ d > DaysInMonth(y, m) THEN NoDate
                ELSE [ok |-> TRUE, y |-> y, m |-> m, d |-> d]

\* the decimal digits of n without padding
RECURSIVE Decimal(_)
Decimal(n) ==
    IF n < 10 THEN <<Digits[n + 1]>>
    ELSE Decimal(n \div 10) \o <<Digits[(n % 10) + 1]>>

Pad2(n) == <<Digits[(n \div 10) + 1], Digits[(n % 10) + 1]>>

\* strftime('%Y%m%d'); the C library writes %Y without padding
Strftime(date) == Decimal(date.y) \o Pad2(date.m) \o Pad2(date.d)

----------------------------------------------------------------------------
(* parse_0790_filename                                                     *)

\* [exc, startymd, endymd]: exc is "" when the function returns
parse_0790_filename(fn) ==
    LET fn_parts == SplitOn(Basename(fn), "_")
    IN  IF Len(fn_parts) < 3
        THEN [exc |-> "IndexError", startymd |-> <<>>, endymd |-> <<>>]
        ELSE IF ~Strptime(fn_parts[3]).ok
        THEN [exc |-> "RuntimeError", startymd |-> <<>>, endymd |-> <<>>]
        ELSE IF Len(fn_parts) < 4
        THEN [exc |-> "IndexError", startymd |-> <<>>, endymd |-> <<>>]
        ELSE IF ~Strptime(fn_parts[4]).ok
        THEN [exc |-> "RuntimeError", startymd |-> <<>>, endymd |-> <<>>]
        ELSE [exc |-> "", startymd |-> Strftime(Strptime(fn_parts[3])),
              endymd |-> Strftime(Strptime(fn_parts[4]))]

----------------------------------------------------------------------------
(* read_csv_header                                                         *)

\* the bytes of the header line as they stand in the (uncompressed) file
RawHeaderLine == JoinWith(hdr_cols, ",") \o hdr_eol

\* readline() of a file opened in text mode: a line end reads as "\n"
TextReadline(raw) ==
    IF LastChars(raw, 2) = <<"\r", "\n">>
    THEN SubSeq(raw, 1, Len(raw) - 2) \o <<"\n">>
    ELSE raw

IsDateColumn(val) == TakeChars(val, 2) = <<"i", "_">>

read_csv_header(fn, raw) ==
    LET orig_csv_header ==
            IF LastChars(fn, 3) = <<".", "g", "z">>
            THEN RStrip(raw)
            ELSE TextReadline(raw)
        vals == SplitOn(orig_csv_header, ",")
        keep == SelectSeq(vals, IsDateColumn)
        list_of_dates == [k \in 1..Len(keep) |-> DropChars(keep[k], 2)]
    IN  JoinWith(list_of_dates, ",")

----------------------------------------------------------------------------
(* float32 arithmetic of the grid transform, in fixed point.               *)
(* Fx: [neg, m, f] stands for the number (+/-)(m + f / Scale) metres, with *)
(* 0 <= f < Scale.  Scale = 125 * 2^9 makes both the thousandths of the    *)
(* decimal constant and the float32 grid of every magnitude in             *)
(* [2^14, 2^23) whole numbers of units.                                    *)

Scale == 125 * 512

PriorMissing == -999

PostMissing == 999

GridCentre == 180

GridMax == 360

\* grid_resolution = 25067.525, in millimetres
GridResolutionMm == 25067525

FxZero == [neg |-> FALSE, m |-> 0, f |-> 0]

grid_resolution ==
    [neg |-> FALSE, m |-> GridResolutionMm \div 1000,
     f |-> (GridResolutionMm % 1000) * (Scale \div 1000)]

Abs(n) == IF n < 0 THEN -n ELSE n

RECURSIVE Pow2(_)
Pow2(n) == IF n = 0 THEN 1 ELSE 2 * Pow2(n - 1)

\* the exponent p with 2^p <= m < 2^(p+1), for m >= 1
RECURSIVE Log2Floor(_)
Log2Floor(m) == IF m < 2 THEN 0 ELSE 1 + Log2Floor(m \div 2)

\* the nearest float32 (24-bit significand, ties to even) to a number that
\* is zero, a whole number below 2^24, or of magnitude 2^14 and more
F32Round(v) ==
    IF v.f = 0 /\ v.m < Pow2(24) THEN v
    ELSE
      LET p == Log2Floor(v.m)
      IN  IF p >= 23
          THEN \* the float32 grid is 2^(p - 23) metres wide
            LET w  == Pow2(p - 23)
                q  == v.m \div w
                r  == (v.m % w) * Scale + v.f
                up == IF 2 * r > w * Scale THEN 1
                      ELSE IF 2 * r < w * Scale THEN 0
                      ELSE q % 2
            IN  [neg |-> v.neg, m |-> (q + up) * w, f |-> 0]
          ELSE \* the float32 grid is 2^(p - 23) metres = u units wide
            LET u  == CASE p >= 14 -> 125 * Pow2(p - 14)
                q  == v.f \div u
                r  == v.f % u
                up == IF 2 * r > u THEN 1
                      ELSE IF 2 * r < u THEN 0
                      ELSE q % 2
                f2 == (q + up) * u
            IN  IF f2 = Scale THEN [neg |-> v.neg, m |-> v.m + 1, f |-> 0]
                ELSE [neg |-> v.neg, m |-> v.m, f |-> f2]

\* the exact product of the whole number k and v
MulExact(k, v) ==
    LET a  == Abs(k)
        lo == a * v.f
        m2 == a * v.m + (lo \div Scale)
        f2 == lo % Scale
    IN  IF k = 0 \/ (v.m = 0 /\ v.f = 0) THEN FxZero
        ELSE [neg |-> (k < 0) # v.neg, m |-> m2, f |-> f2]

\* float32 array times a Python float: the scalar is taken as float32 and
\* the product is rounded to float32
F32Mul(k, scalar) == F32Round(MulExact(k, F32Round(scalar)))

GridXOffByOne(i) == F32Mul(i - (GridCentre - 1), grid_resolution)

\* xvals = (ivals - 180) * grid_resolution
GridX(i) == F32Mul(i - GridCentre, grid_resolution)

\* yvals = (180 - jvals) * grid_resolution
GridY(j) == F32Mul(GridCentre - j, grid_resolution)

----------------------------------------------------------------------------
(* Arrays.  A 2-D array is a sequence of rows.  An array of fewer          *)
(* dimensions keeps its elements in a single row, with arr_ndim telling    *)
(* how many dimensions NumPy gives it.                                     *)

NRows(a) == Len(a)

NCols(a) == IF Len(a) = 0 THEN 0 ELSE Len(a[1])

Shape(a) == <<NRows(a), NCols(a)>>

IsEmptyArray(a) == NRows(a) = 0 \/ NCols(a) = 0

MapArray(a, Op(_)) == [r \in 1..Len(a) |-> [c \in 1..Len(a[r]) |-> Op(a[r][c])]]

StridedRowOffByOne(row, start) ==
    [g \in 1..((Len(row) - start + 1) \div 3) |-> row[start + 3 * (g - 1) + 2]]

\* row[start::3], start in 0..2
StridedRow(row, start) ==
    [g \in 1..((Len(row) - start + 2) \div 3) |-> row[start + 3 * (g - 1) + 1]]

\* a[:, start::3]
Strided(a, start) == [r \in 1..Len(a) |-> StridedRow(a[r], start)]

\* a == v
EqualsMask(a, v) == [r \in 1..Len(a) |-> [c \in 1..Len(a[r]) |-> a[r][c] = v]]

\* a[mask] = v
PutWhere(a, mask, v) ==
    [r \in 1..Len(a) |-> [c \in 1..Len(a[r]) |->
        IF mask[r][c] THEN v ELSE a[r][c]]]

AssignStridedShifted(a, start, b) ==
    [r \in 1..Len(a) |-> [c \in 1..Len(a[r]) |->
        IF (c - 1) % 3 = (start + 1) % 3 /\ ((c - 1) \div 3) + 1 <= Len(b[r])
        THEN b[r][((c - 1) \div 3) + 1]
        ELSE a[r][c]]]

\* a[:, start::3] = b[:, :]
AssignStrided(a, start, b) ==
    [r \in 1..Len(a) |-> [c \in 1..Len(a[r]) |->
        IF (c - 1) % 3 = start THEN b[r][((c - 1) \div 3) + 1] ELSE a[r][c]]]

(* The cells of the float arrays that hold reprojected values: a number,   *)
(* the latitude or the longitude the library gives for projected (x, y),   *)
(* or a NaN.                                                               *)

Num(v) == [t |-> "num", v |-> v, x |-> FxZero, y |-> FxZero]

LatOf(x, y) == [t |-> "lat", v |-> 0, x |-> x, y |-> y]

LonOf(x, y) == [t |-> "lon", v |-> 0, x |-> x, y |-> y]

NaN == [t |-> "nan", v |-> 0, x |-> FxZero, y |-> FxZero]

\* what transformer.transform can hand back for in-range input
ReprojOutcomes == {"ok", "nan"}

\* (cell > -900) & (cell < 900)
IsNotMissing(cell) ==
    CASE cell.t = "num" -> cell.v > -900 /\ cell.v < 900
      [] cell.t = "nan" -> FALSE
      [] OTHER -> TRUE

AnyNotMissing(a) == \E r \in 1..Len(a) : \E c \in 1..Len(a[r]) : IsNotMissing(a[r][c])

\* np.loadtxt(...): the rows as float32, squeezed
LoadedNdim(t) ==
    IF NRows(t) = 1 /\ NCols(t) = 1 THEN 0
    ELSE IF NRows(t) = 1 \/ NCols(t) = 1 THEN 1
    ELSE 2

LoadedData(t) ==
    IF NRows(t) > 1 /\ NCols(t) = 1
    THEN <<[r \in 1..NRows(t) |-> t[r][1]]>>
    ELSE t

\* what np.savetxt writes before the data rows (comments = '')
HeaderText(header) == IF Len(header) > 0 THEN header \o <<"\n">> ELSE <<>>

OutputFile(kind, data) ==
    [kind |-> kind, start |-> startymd, end |-> endymd,
     head |-> HeaderText(csv_header), data |-> data]

----------------------------------------------------------------------------
(* gen_latlonconc_from_csv, one action per statement that changes state.   *)

inputs == <<ifn, hdr_cols, hdr_eol, rows, verbose>>

Raise(exc) == pc' = "error" /\ err' = exc

\* startymd, endymd = parse_0790_filename(ifn)
ParseFilename ==
    /\ pc = "start"
    /\ LET res == parse_0790_filename(ifn)
       IN  IF res.exc # ""
           THEN Raise(res.exc) /\ UNCHANGED <<startymd, endymd>>
           ELSE /\ pc' = "parsed"
                /\ startymd' = res.startymd
                /\ endymd' = res.endymd
                /\ UNCHANGED err
    /\ UNCHANGED <<inputs, csv_header, arr, arr_ndim, missing_locs_prior,
                   missing_locs_post, ivals, jvals, cvals, xvals, yvals,
                   proj_outcome, lats, lons, ll_arr, written, grid_vars>>

\* csv_header = read_csv_header(ifn, header_line=num_header_lines)
ReadCsvHeader ==
    /\ pc = "parsed"
    /\ csv_header' = read_csv_header(ifn, RawHeaderLine)
    /\ pc' = "header"
    /\ UNCHANGED <<inputs, err, startymd, endymd, arr, arr_ndim,
                   missing_locs_prior, missing_locs_post, ivals, jvals, cvals,
                   xvals, yvals, proj_outcome, lats, lons, ll_arr, written,
                   grid_vars>>

\* arr = np.loadtxt(ifn, delimiter=',', skiprows=..., dtype=np.float32)
LoadTxt ==
    /\ pc = "header"
    /\ arr' = LoadedData(rows)
    /\ arr_ndim' = LoadedNdim(rows)
    /\ pc' = "loaded"
    /\ UNCHANGED <<inputs, err, startymd, endymd, csv_header,
                   missing_locs_prior, missing_locs_post, ivals, jvals, cvals,
                   xvals, yvals, proj_outcome, lats, lons, ll_arr, written,
                   grid_vars>>

\* missing_locs_prior = arr == -999
MaskPrior ==
    /\ pc = "loaded"
    /\ missing_locs_prior' = EqualsMask(arr, PriorMissing)
    /\ pc' = "mask_prior"
    /\ UNCHANGED <<inputs, err, startymd, endymd, csv_header, arr, arr_ndim,
                   missing_locs_post, ivals, jvals, cvals, xvals, yvals,
                   proj_outcome, lats, lons, ll_arr, written, grid_vars>>

\* missing_locs_post = arr == 999
MaskPost ==
    /\ pc = "mask_prior"
    /\ missing_locs_post' = EqualsMask(arr, PostMissing)
    /\ pc' = "mask_post"
    /\ UNCHANGED <<inputs, err, startymd, endymd, csv_header, arr, arr_ndim,
                   missing_locs_prior, ivals, jvals, cvals, xvals, yvals,
                   proj_outcome, lats, lons, ll_arr, written, grid_vars>>

ZeroPriorSkipped ==
    /\ pc = "mask_post"
    /\ pc' = "zero_prior"
    /\ UNCHANGED <<inputs, err, startymd, endymd, csv_header, arr, arr_ndim,
                   missing_locs_prior, missing_locs_post, ivals, jvals, cvals,
                   xvals, yvals, proj_outcome, lats, lons, ll_arr, written,
                   grid_vars>>

\* arr[missing_locs_prior] = 0
ZeroPrior ==
    /\ pc = "mask_post"
    /\ arr' = PutWhere(arr, missing_locs_prior, 0)
    /\ pc' = "zero_prior"
    /\ UNCHANGED <<inputs, err, startymd, endymd, csv_header, arr_ndim,
                   missing_locs_prior, missing_locs_post, ivals, jvals, cvals,
                   xvals, yvals, proj_outcome, lats, lons, ll_arr, written,
                   grid_vars>>

\* arr[missing_locs_post] = 0
ZeroPost ==
    /\ pc = "zero_prior"
    /\ arr' = PutWhere(arr, missing_locs_post, 0)
    /\ pc' = "zero_post"
    /\ UNCHANGED <<inputs, err, startymd, endymd, csv_header, arr_ndim,
                   missing_locs_prior, missing_locs_post, ivals, jvals, cvals,
                   xvals, yvals, proj_outcome, lats, lons, ll_arr, written,
                   grid_vars>>

\* ivals = arr[:, 0::3]; jvals = arr[:, 1::3]; cvals = arr[:, 2::3]
\* (an array of fewer than two dimensions takes no second index)
Deinterleave ==
    /\ pc = "zero_post"
    /\ IF arr_ndim < 2
       THEN Raise("IndexError") /\ UNCHANGED <<ivals, jvals, cvals>>
       ELSE /\ ivals' = Strided(arr, 0)
            /\ jvals' = Strided(arr, 1)
            /\ cvals' = Strided(arr, 2)
            /\ pc' = "deinterleaved"
            /\ UNCHANGED err
    /\ UNCHANGED <<inputs, startymd, endymd, csv_header, arr, arr_ndim,
                   missing_locs_prior, missing_locs_post, xvals, yvals,
                   proj_outcome, lats, lons, ll_arr, written, grid_vars>>

\* xvals = (ivals - 180) * grid_resolution; yvals = (180 - jvals) * ...
\* then, if verbose, np.nanmin / np.nanmax of ivals, jvals, cvals, xvals, yvals
GridTransform ==
    /\ pc = "deinterleaved"
    /\ xvals' = MapArray(ivals, GridX)
    /\ yvals' = MapArray(jvals, GridY)
    /\ IF verbose /\ (IsEmptyArray(ivals) \/ IsEmptyArray(jvals) \/ IsEmptyArray(cvals))
       THEN Raise("ValueError")
       ELSE pc' = "projected" /\ UNCHANGED err
    /\ UNCHANGED <<inputs, startymd, endymd, csv_header, arr, arr_ndim,
                   missing_locs_prior, missing_locs_post, ivals, jvals, cvals,
                   proj_outcome, lats, lons, ll_arr, written, grid_vars>>

\* transformer = pyproj.Transformer.from_crs('epsg:3408', 'epsg:4326')
\* lats, lons = transformer.transform(xvals, yvals)
\* (the library refuses x and y of different sizes)
Reproject ==
    /\ pc = "projected"
    /\ IF Shape(xvals) # Shape(yvals)
       THEN Raise("ProjError") /\ UNCHANGED <<lats, lons, proj_outcome>>
       ELSE \E outcome \in ReprojOutcomes :
              /\ proj_outcome' = outcome
              /\ lats' = [r \in 1..Len(xvals) |-> [g \in 1..Len(xvals[r]) |->
                            IF outcome = "ok"
                            THEN LatOf(xvals[r][g], yvals[r][g]) ELSE NaN]]
              /\ lons' = [r \in 1..Len(xvals) |-> [g \in 1..Len(xvals[r]) |->
                            IF outcome = "ok"
                            THEN LonOf(xvals[r][g], yvals[r][g]) ELSE NaN]]
              /\ pc' = "reprojected"
              /\ UNCHANGED err
    /\ UNCHANGED <<inputs, startymd, endymd, csv_header, arr, arr_ndim,
                   missing_locs_prior, missing_locs_post, ivals, jvals, cvals,
                   xvals, yvals, ll_arr, written, grid_vars>>

\* ll_arr = arr.copy(); ll_arr[:, 0::3] = lats[:, :]; ll_arr[:, 1::3] = lons[:, :]
Reassemble ==
    /\ pc = "reprojected"
    /\ ll_arr' = AssignStrided(AssignStrided(MapArray(arr, Num), 0, lats), 1, lons)
    /\ pc' = "reassembled"
    /\ UNCHANGED <<inputs, err, startymd, endymd, csv_header, arr, arr_ndim,
                   missing_locs_prior, missing_locs_post, ivals, jvals, cvals,
                   xvals, yvals, proj_outcome, lats, lons, written, grid_vars>>

ReapplyPriorWrongSentinel ==
    /\ pc = "reassembled"
    /\ ll_arr' = PutWhere(ll_arr, missing_locs_prior, Num(PostMissing))
    /\ pc' = "reapplied_prior"
    /\ UNCHANGED <<inputs, err, startymd, endymd, csv_header, arr, arr_ndim,
                   missing_locs_prior, missing_locs_post, ivals, jvals, cvals,
                   xvals, yvals, proj_outcome, lats, lons, written, grid_vars>>

\* ll_arr[missing_locs_prior] = -999
ReapplyPrior ==
    /\ pc = "reassembled"
    /\ ll_arr' = PutWhere(ll_arr, missing_locs_prior, Num(PriorMissing))
    /\ pc' = "reapplied_prior"
    /\ UNCHANGED <<inputs, err, startymd, endymd, csv_header, arr, arr_ndim,
                   missing_locs_prior, missing_locs_post, ivals, jvals, cvals,
                   xvals, yvals, proj_outcome, lats, lons, written, grid_vars>>

ReapplyPostSkipped ==
    /\ pc = "reapplied_prior"
    /\ pc' = "reapplied_post"
    /\ UNCHANGED <<inputs, err, startymd, endymd, csv_header, arr, arr_ndim,
                   missing_locs_prior, missing_locs_post, ivals, jvals, cvals,
                   xvals, yvals, proj_outcome, lats, lons, ll_arr, written,
                   grid_vars>>

\* ll_arr[missing_locs_post] = 999
ReapplyPost ==
    /\ pc = "reapplied_prior"
    /\ ll_arr' = PutWhere(ll_arr, missing_locs_post, Num(PostMissing))
    /\ pc' = "reapplied_post"
    /\ UNCHANGED <<inputs, err, startymd, endymd, csv_header, arr, arr_ndim,
                   missing_locs_prior, missing_locs_post, ivals, jvals, cvals,
                   xvals, yvals, proj_outcome, lats, lons, written, grid_vars>>

\* lats = ll_arr[:, 0::3]; lons = ll_arr[:, 1::3]; cvals = ll_arr[:, 2::3]
SplitOutputs ==
    /\ pc = "reapplied_post"
    /\ lats' = Strided(ll_arr, 0)
    /\ lons' = Strided(ll_arr, 1)
    /\ cvals' = Strided(ll_arr, 2)
    /\ pc' = "split"
    /\ UNCHANGED <<inputs, err, startymd, endymd, csv_header, arr, arr_ndim,
                   missing_locs_prior, missing_locs_post, ivals, jvals,
                   xvals, yvals, proj_outcome, ll_arr, written, grid_vars>>

\* np.savetxt(ofn_lats, lats, fmt='%.3f', delimiter=',', header=csv_header, comments='')
SaveLats ==
    /\ pc = "split"
    /\ written' = Append(written, OutputFile("lats", lats))
    /\ pc' = "saved_lats"
    /\ UNCHANGED <<inputs, err, startymd, endymd, csv_header, arr, arr_ndim,
                   missing_locs_prior, missing_locs_post, ivals, jvals, cvals,
                   xvals, yvals, proj_outcome, lats, lons, ll_arr, grid_vars>>

\* np.savetxt(ofn_lons, lons, ...)
SaveLons ==
    /\ pc = "saved_lats"
    /\ written' = Append(written, OutputFile("lons", lons))
    /\ pc' = "saved_lons"
    /\ UNCHANGED <<inputs, err, startymd, endymd, csv_header, arr, arr_ndim,
                   missing_locs_prior, missing_locs_post, ivals, jvals, cvals,
                   xvals, yvals, proj_outcome, lats, lons, ll_arr, grid_vars>>

\* np.savetxt(ofn_conc, cvals, ...); then, if verbose, np.min / np.max over the
\* cells of lats, lons and cvals that lie strictly between -900 and 900
SaveConc ==
    /\ pc = "saved_lons"
    /\ written' = Append(written, OutputFile("conc", cvals))
    /\ IF verbose /\ ~(AnyNotMissing(lats) /\ AnyNotMissing(lons) /\ AnyNotMissing(cvals))
       THEN Raise("ValueError")
       ELSE pc' = "done" /\ UNCHANGED err
    /\ UNCHANGED <<inputs, startymd, endymd, csv_header, arr, arr_ndim,
                   missing_locs_prior, missing_locs_post, ivals, jvals, cvals,
                   xvals, yvals, proj_outcome, lats, lons, ll_arr, grid_vars>>

Next ==
    \/ ParseFilename
    \/ ReadCsvHeader
    \/ LoadTxt
    \/ MaskPrior
    \/ MaskPost
    \/ ZeroPrior
    \/ ZeroPost
    \/ Deinterleave
    \/ GridTransform
    \/ Reproject
    \/ Reassemble
    \/ ReapplyPrior
    \/ ReapplyPost
    \/ SplitOutputs
    \/ SaveLats
    \/ SaveLons
    \/ SaveConc

----------------------------------------------------------------------------
(* Inputs.                                                                 *)

Sentinels == {PriorMissing, PostMissing}

\* a valid cell value for row r, column c (1-based): a grid index for the
\* i and j columns, a concentration for the c column, all distinct
BaseValue(r, c) == IF (c - 1) % 3 = 2 THEN 10 * c + r ELSE 100 + 10 * c + r

BaseTable(n, m) == [r \in 1..n |-> [c \in 1..m |-> BaseValue(r, c)]]

\* the channels of a triplet that a missing mark covers: one channel, both
\* indices, or the whole triplet
MarkChannels == {{0}, {1}, {2}, {0, 1}, {0, 1, 2}}

NoMark == <<0, 0, {}>>

\* no mark, or a mark <<row, triplet, channels>> within n rows and m columns
Marks(n, m) ==
    {NoMark} \cup
    {<<r, g, chs>> : r \in 1..n, g \in 1..((m + 2) \div 3), chs \in MarkChannels}

\* table t with the cells under the mark set to v
ApplyMark(t, mark, v) ==
    [r \in 1..Len(t) |-> [c \in 1..Len(t[r]) |->
        IF r = mark[1] /\ ((c - 1) \div 3) + 1 = mark[2] /\ (c - 1) % 3 \in mark[3]
        THEN v ELSE t[r][c]]]

\* the tables of n rows and m columns: valid values, with at most one mark
\* of prior-missing cells and at most one mark of post-missing cells
TablesOfShape(n, m) ==
    {ApplyMark(ApplyMark(BaseTable(n, m), p, PriorMissing), q, PostMissing) :
        p \in Marks(n, m), q \in Marks(n, m)}

Tables == UNION {TablesOfShape(n, m) : n \in 1..MaxRows, m \in 1..MaxCols}

TokPrefix == <<"n", "s", "i", "d", "c", "0", "7", "9", "0">>
TokLabel == <<"i", "m", "p", "a", "r", "c", "e", "l", "s">>
TokVersion == <<"v", "1", ".", "0">>

\* third and fourth tokens: two dates, a date without zero padding, a
\* non-digit, a month 13, a 31st of February
DateTokens ==
    {<<"2", "0", "0", "0", "0", "8", "0", "1">>,
     <<"2", "0", "0", "1", "0", "8", "0", "1">>,
     <<"2", "0", "0", "0", "8", "1", "1">>,
     <<"2", "0", "0", "0", "0", "8", "0", "x">>,
     <<"2", "0", "0", "0", "1", "3", "0", "1">>,
     <<"2", "0", "0", "0", "0", "2", "3", "1">>}

FileToken(k, d3, d4) ==
    CASE k = 1 -> TokPrefix
      [] k = 2 -> TokLabel
      [] k = 3 -> d3
      [] k = 4 -> d4
      [] OTHER -> TokVersion

Dirs == {<<>>, <<"a", "_", "b", "/">>}

Extensions == {<<".", "c", "s", "v">>, <<".", "c", "s", "v", ".", "g", "z">>}

FileNames ==
    {dir \o JoinWith([k \in 1..n |-> FileToken(k, d3, d4)], "_") \o ext :
        dir \in Dirs, n \in 1..MaxTokens, d3 \in DateTokens, d4 \in DateTokens,
        ext \in Extensions}

\* nsidc0790_imparcels_20000801_20010801_v1.0.csv.gz
SampleFileGz ==
    JoinWith([k \in 1..5 |-> FileToken(k, <<"2", "0", "0", "0", "0", "8", "0", "1">>, <<"2", "0", "0", "1", "0", "8", "0", "1">>)], "_") \o <<".", "c", "s", "v", ".", "g", "z">>

SampleFilePlain ==
    JoinWith([k \in 1..5 |-> FileToken(k, <<"2", "0", "0", "0", "0", "8", "0", "1">>, <<"2", "0", "0", "1", "0", "8", "0", "1">>)], "_") \o <<".", "c", "s", "v">>

ColumnNames ==
    {<<"i", "d">>,
     <<"i", "_", "2", "0", "0", "0", "0", "1", "0", "1">>,
     <<"j", "_", "2", "0", "0", "0", "0", "1", "0", "1">>,
     <<"c", "_", "2", "0", "0", "0", "0", "1", "0", "1">>,
     <<"i", "_", "2", "0", "0", "0", "0", "2", "0", "1">>}

\* i_20000101,j_20000101,c_20000101,i_20000201,j_20000201,c_20000201
SampleHeader ==
    <<<<"i", "_", "2", "0", "0", "0", "0", "1", "0", "1">>,
      <<"j", "_", "2", "0", "0", "0", "0", "1", "0", "1">>,
      <<"c", "_", "2", "0", "0", "0", "0", "1", "0", "1">>,
      <<"i", "_", "2", "0", "0", "0", "0", "2", "0", "1">>,
      <<"j", "_", "2", "0", "0", "0", "0", "2", "0", "1">>,
      <<"c", "_", "2", "0", "0", "0", "0", "2", "0", "1">>>>

\* id,x,y,i_20000101,i_20000201
ExampleHeader ==
    <<<<"i", "d">>, <<"x">>, <<"y">>,
      <<"i", "_", "2", "0", "0", "0", "0", "1", "0", "1">>,
      <<"i", "_", "2", "0", "0", "0", "0", "2", "0", "1">>>>

RECURSIVE SeqsUpTo(_, _)
SeqsUpTo(S, n) ==
    IF n = 0 THEN {<<>>}
    ELSE LET prev == SeqsUpTo(S, n - 1)
         IN  prev \cup {Append(q, e) : q \in prev, e \in S}

HeaderLines == (SeqsUpTo(ColumnNames, MaxHdrCols) \ {<<>>}) \cup {ExampleHeader, SampleHeader}

LineEnds == {<<"\n">>, <<"\r", "\n">>}

SampleTable == BaseTable(2, 6)

Idle ==
    /\ pc = "start" /\ err = ""
    /\ startymd = <<>> /\ endymd = <<>> /\ csv_header = <<>>
    /\ arr = <<>> /\ arr_ndim = 0
    /\ missing_locs_prior = <<>> /\ missing_locs_post = <<>>
    /\ ivals = <<>> /\ jvals = <<>> /\ cvals = <<>>
    /\ xvals = <<>> /\ yvals = <<>>
    /\ proj_outcome = ""
    /\ lats = <<>> /\ lons = <<>> /\ ll_arr = <<>>
    /\ written = <<>>

GridIdle == gi = 0 /\ gj = 0 /\ gx = FxZero /\ gy = FxZero /\ gdone = TRUE

\* one run over every table, with the sample file name and header
Init ==
    /\ ifn = SampleFileGz
    /\ hdr_cols = SampleHeader
    /\ hdr_eol = <<"\n">>
    /\ rows \in Tables
    /\ verbose \in BOOLEAN
    /\ Idle
    /\ GridIdle

Spec == Init /\ [][Next]_vars

\* one run over every file name, with the sample header and table
InitFilename ==
    /\ ifn \in FileNames
    /\ hdr_cols = SampleHeader
    /\ hdr_eol = <<"\n">>
    /\ rows = SampleTable
    /\ verbose \in BOOLEAN
    /\ Idle
    /\ GridIdle

SpecFilename == InitFilename /\ [][Next]_vars

\* one run over every header line, plain and compressed
InitHeader ==
    /\ ifn \in {SampleFileGz, SampleFilePlain}
    /\ hdr_cols \in HeaderLines
    /\ hdr_eol \in LineEnds
    /\ rows = SampleTable
    /\ verbose = TRUE
    /\ Idle
    /\ GridIdle

SpecHeader == InitHeader /\ [][Next]_vars

\* the grid transform alone, over every index pair of the 361 x 361 grid
InitGrid ==
    /\ gi \in 0..GridMax
    /\ gj \in 0..GridMax
    /\ gx = FxZero /\ gy = FxZero /\ gdone = FALSE
    /\ ifn = SampleFileGz
    /\ hdr_cols = SampleHeader
    /\ hdr_eol = <<"\n">>
    /\ rows = SampleTable
    /\ verbose = FALSE
    /\ Idle

ApplyGridTransform ==
    /\ ~gdone
    /\ gx' = GridX(gi)
    /\ gy' = GridY(gj)
    /\ gdone' = TRUE
    /\ UNCHANGED <<gi, gj, pipeline_vars>>

NextGrid == ApplyGridTransform

SpecGrid == InitGrid /\ [][NextGrid]_vars

----------------------------------------------------------------------------
(* Vocabulary of the properties.                                           *)

\* the input table has whole triplets
WellFormed == NCols(rows) % 3 = 0

Groups == NCols(rows) \div 3

\* the raw value of channel ch (0 = i, 1 = j, 2 = c) of triplet g in row r
Raw(r, g, ch) == rows[r][3 * (g - 1) + ch + 1]

\* the value the working array holds for a raw value
Zeroed(v) == IF v \in Sentinels THEN 0 ELSE v

\* all three output tables have been written
Emitted == Len(written) = 3

\* the emitted table of channel ch (0 = lats, 1 = lons, 2 = conc)
Out(ch) == written[ch + 1].data

Triplets == {<<r, g>> : r \in 1..NRows(rows), g \in 1..Groups}

Channels == {0, 1, 2}

AfterMasks ==
    {"mask_post", "zero_prior", "zero_post", "deinterleaved", "projected",
     "reprojected", "reassembled", "reapplied_prior", "reapplied_post",
     "split", "saved_lats", "saved_lons", "done"}

\* the states in which the grid transform and the reprojection start
MathStates == {"deinterleaved", "projected"}

Reapplied ==
    pc \in {"reapplied_post", "split", "saved_lats", "saved_lons", "done"} \/ Emitted

----------------------------------------------------------------------------
C2_SentinelReapplied ==
    Reapplied =>
        \A r \in 1..NRows(rows) : \A c \in 1..NCols(rows) :
            /\ rows[r][c] = PriorMissing => ll_arr[r][c] = Num(PriorMissing)
            /\ rows[r][c] = PostMissing => ll_arr[r][c] = Num(PostMissing)

\* the reprojection returned NaN and both sentinels were restored in
\* latitude or longitude columns
C2_Witness ==
    /\ pc = "reapplied_post" /\ proj_outcome = "nan"
    /\ \E r \in 1..NRows(rows) : \E c \in 1..NCols(rows) :
          (c - 1) % 3 # 2 /\ rows[r][c] = PriorMissing /\ ll_arr[r][c] = Num(PriorMissing)
    /\ \E r \in 1..NRows(rows) : \E c \in 1..NCols(rows) :
          (c - 1) % 3 # 2 /\ rows[r][c] = PostMissing /\ ll_arr[r][c] = Num(PostMissing)

(* C3: for a table of n rows and 3k columns the I-, J- and C-subtables are *)
(* the columns 0,3,6,..., 1,4,7,... and 2,5,8,... of the working array,    *)
(* each n x k, and column g of each emitted table comes from triplet g of  *)
(* the same input row.                                                     *)
C3_Deinterleave ==
    WellFormed =>
      /\ pc \in {"deinterleaved", "projected", "reprojected"} =>
            /\ Shape(ivals) = <<NRows(rows), Groups>>
            /\ Shape(jvals) = <<NRows(rows), Groups>>
            /\ Shape(cvals) = <<NRows(rows), Groups>>
            /\ \A t \in Triplets :
                  /\ ivals[t[1]][t[2]] = Zeroed(Raw(t[1], t[2], 0))
                  /\ jvals[t[1]][t[2]] = Zeroed(Raw(t[1], t[2], 1))
                  /\ cvals[t[1]][t[2]] = Zeroed(Raw(t[1], t[2], 2))
      /\ (Emitted /\ proj_outcome = "ok") =>
            \A t \in Triplets :
              LET i == Raw(t[1], t[2], 0)
                  j == Raw(t[1], t[2], 1)
                  x == GridX(Zeroed(i))
                  y == GridY(Zeroed(j))
              IN  /\ Out(0)[t[1]][t[2]] = IF i \in Sentinels THEN Num(i) ELSE LatOf(x, y)
                  /\ Out(1)[t[1]][t[2]] = IF j \in Sentinels THEN Num(j) ELSE LonOf(x, y)
                  /\ Out(2)[t[1]][t[2]] = Num(Raw(t[1], t[2], 2))

\* a table of two triplets per row was deinterleaved and emitted
C3_Witness ==
    /\ Emitted /\ WellFormed /\ proj_outcome = "ok"
    /\ Groups = 2 /\ NRows(rows) = 2
    /\ Out(0)[2][2].t = "lat"

----------------------------------------------------------------------------
(* The grid transform against the exact products.                          *)

\* the exact value of k * 25067.525
ExactMetres(k) == MulExact(k, grid_resolution)

\* a and b differ by at most tol units of 1 / Scale metre
Within(a, b, tol) ==
    /\ a.neg = b.neg
    /\ Abs(a.m - b.m) <= 1
    /\ Abs((a.m - b.m) * Scale + a.f - b.f) <= tol

Millimetre == Scale \div 1000

HalfMetre == Scale \div 2

(* C4 as stated: for every index pair (i, j) of 0..360 x 0..360 the        *)
(* projected coordinates are x = (i - 180) * 25067.525 and                 *)
(* y = (180 - j) * 25067.525 within 1e-3 m.                                *)
C4_GridTransformWithinMillimetre ==
    gdone =>
        /\ Within(gx, ExactMetres(gi - GridCentre), Millimetre)
        /\ Within(gy, ExactMetres(GridCentre - gj), Millimetre)

(* C4 amended: for every index pair of 0..360 x 0..360 the projected       *)
(* coordinates are the float32 products, within 0.5 m of                   *)
(* x = (i - 180) * 25067.525 and y = (180 - j) * 25067.525; (180, 180)     *)
(* maps to (0, 0) exactly and (179, 179) to (-25067.525, 25067.525)        *)
(* within 1e-3 m.                                                          *)
C4_GridTransformWithinHalfMetre ==
    gdone =>
        /\ Within(gx, ExactMetres(gi - GridCentre), HalfMetre)
        /\ Within(gy, ExactMetres(GridCentre - gj), HalfMetre)
        /\ gi = GridCentre => gx = FxZero
        /\ gj = GridCentre => gy = FxZero
        /\ gi = GridCentre - 1 => Within(gx, ExactMetres(-1), Millimetre)
        /\ gj = GridCentre - 1 => Within(gy, ExactMetres(1), Millimetre)

\* the transform of (179, 179) was computed: x negative, y positive
C4_Witness ==
    /\ gdone /\ gi = GridCentre - 1 /\ gj = GridCentre - 1
    /\ gx.neg /\ ~gy.neg /\ gx.m = gy.m /\ gx.m > 0

----------------------------------------------------------------------------
\* text before the data rows that is exactly one line
OneHeaderLine(head) ==
    /\ Len(head) > 1
    /\ head[Len(head)] = "\n"
    /\ \A k \in 1..(Len(head) - 1) : head[k] # "\n"

(* C5: for every well-formed table of n >= 1 rows and 3k columns the run   *)
(* ends with three emitted tables, each of n data rows and k data columns  *)
(* after exactly one header line.                                          *)
C5_OutputShape ==
    (WellFormed /\ pc \in {"done", "error"}) =>
        /\ Emitted
        /\ \A f \in 1..3 :
              /\ Shape(written[f].data) = <<NRows(rows), Groups>>
              /\ OneHeaderLine(written[f].head)

(* C6: for every table whose column count is not a multiple of 3 no output *)
(* file is ever written and the run ends in an error.                      *)
C6_MalformedFailsFast ==
    ~WellFormed => (written = <<>> /\ pc # "done")

----------------------------------------------------------------------------
\* tok is eight digits that name a calendar date
IsYmd(tok) ==
    /\ Len(tok) = 8
    /\ \A k \in 1..8 : IsDigit(tok[k])
    /\ IntOf(SubSeq(tok, 1, 4)) >= 1
    /\ IntOf(SubSeq(tok, 5, 6)) \in 1..12
    /\ IntOf(SubSeq(tok, 7, 8)) >= 1
    /\ IntOf(SubSeq(tok, 7, 8)) <= DaysInMonth(IntOf(SubSeq(tok, 1, 4)), IntOf(SubSeq(tok, 5, 6)))

NameTokens == SplitOn(Basename(ifn), "_")

HasDateTokens ==
    Len(NameTokens) >= 4 /\ IsYmd(NameTokens[3]) /\ IsYmd(NameTokens[4])

(* C7: when the third and fourth '_'-separated tokens of the basename are  *)
(* valid YYYYMMDD dates the parse returns those two tokens; otherwise (a   *)
(* non-date token, or fewer than four tokens) the run ends with the        *)
(* filename-format RuntimeError and no output file is written.             *)
C7_FilenameParsing ==
    pc # "start" =>
        IF HasDateTokens
        THEN startymd = NameTokens[3] /\ endymd = NameTokens[4]
        ELSE pc = "error" /\ err = "RuntimeError" /\ written = <<>>

----------------------------------------------------------------------------
\* the names of hdr_cols that start with i_, without that prefix, joined
ExpectedHeader ==
    LET keep == SelectSeq(hdr_cols, IsDateColumn)
    IN  JoinWith([k \in 1..Len(keep) |-> SubSeq(keep[k], 3, Len(keep[k]))], ",")

(* C8: read_csv_header returns exactly the comma-join, in order, of the    *)
(* column names that start with i_ with that prefix stripped, with no line *)
(* terminator or other extra character, for a plain and for a gzip file.   *)
C8_HeaderDerivation ==
    pc \notin {"start", "parsed"} => csv_header = ExpectedHeader

----------------------------------------------------------------------------
NoSentinel(a) ==
    \A r \in 1..Len(a) : \A c \in 1..Len(a[r]) : a[r][c] \notin Sentinels

(* C9: both masks are those of the whole raw table (raw == -999 and        *)
(* raw == 999), no cell of the working array is replaced before both       *)
(* exist, they are never modified afterwards, and when the grid transform  *)
(* and the reprojection run no cell of the working array (nor of the       *)
(* index subtables) holds -999 or 999 and every flagged cell holds 0.      *)
C9_DetectionPrecedesMath ==
    [][ /\ pc' \in AfterMasks =>
              /\ missing_locs_prior' = EqualsMask(LoadedData(rows), PriorMissing)
              /\ missing_locs_post' = EqualsMask(LoadedData(rows), PostMissing)
        /\ (pc \notin {"start", "parsed", "header"} /\ arr' # arr) =>
              pc \in AfterMasks
        /\ pc \in AfterMasks =>
              /\ missing_locs_prior' = missing_locs_prior
              /\ missing_locs_post' = missing_locs_post
        /\ pc \in MathStates =>
              /\ NoSentinel(arr) /\ NoSentinel(ivals) /\ NoSentinel(jvals)
              /\ \A r \in 1..Len(arr) : \A c \in 1..Len(arr[r]) :
                    (missing_locs_prior[r][c] \/ missing_locs_post[r][c]) => arr[r][c] = 0
      ]_vars

\* the reprojection is about to run on a table that held both sentinels,
\* now zeroed
C9_Witness ==
    /\ pc = "projected"
    /\ \E r \in 1..Len(arr) : \E c \in 1..Len(arr[r]) :
          missing_locs_prior[r][c] /\ arr[r][c] = 0 /\ (c - 1) % 3 = 0
    /\ \E r \in 1..Len(arr) : \E c \in 1..Len(arr[r]) :
          missing_locs_post[r][c] /\ arr[r][c] = 0 /\ (c - 1) % 3 = 1

(* C10: for every well-formed table the emitted concentration table equals *)
(* the raw C-subtable (columns 2,5,8,...) cell for cell, sentinels         *)
(* included.                                                               *)
C10_ConcPassthrough ==
    (WellFormed /\ Emitted) =>
        /\ written[3].kind = "conc"
        /\ written[3].data =
              [r \in 1..NRows(rows) |-> [g \in 1..Groups |-> Num(Raw(r, g, 2))]]

\* a concentration table with a sentinel and a valid cell was emitted
C10_Witness ==
    /\ WellFormed /\ Emitted /\ proj_outcome = "ok"
    /\ \E t \in Triplets : Out(2)[t[1]][t[2]] = Num(PostMissing)
    /\ \E t \in Triplets : Out(2)[t[1]][t[2]].v \notin Sentinels

====
